---- MODULE Spec2Model ----
(***************************************************************************)
(* Colour conversions of src/Colors/gray.ipynb and src/Colors/lab.ipynb.   *)
(*                                                                         *)
(* A tensor is a record [dtype, shape, data]: shape is the sequence of its *)
(* dimensions and data maps every index tuple of that shape to an element. *)
(* Integer elements are integers of the dtype's width; floating-point      *)
(* elements are fixed-point numbers, an element v standing for v / Scale.  *)
(* The two specifications are                                              *)
(*   Spec        one call of a converter, on tensors of many shapes,       *)
(*               dtypes and element values,                                *)
(*   SpecModule  one RgbToGrayscale instance used by concurrent callers.   *)
(***************************************************************************)
EXTENDS Integers, Sequences, FiniteSets, TLC

VARIABLES call, ret, self_rgb_weights, ctor_arg, constructed, frame, done

vars == <<call, ret, self_rgb_weights, ctor_arg, constructed, frame, done>>

fnVars == <<call, ret>>
modVars == <<self_rgb_weights, ctor_arg, constructed, frame, done>>

(* ------------------------------ bounds --------------------------------- *)

\* number of leading (batch) axes in front of the channel axis: 0..MaxLead
MaxLead == 1
\* size of a leading axis: 1..MaxBatch
MaxBatch == 2
\* height and width: 1..MaxSide
MaxSide == 2
\* forward calls one caller makes on the shared RgbToGrayscale instance
MaxCalls == 2

\* resolution of the fixed-point stand-in for floating-point elements
Scale == 10 * 10 * 10 * 10

(* ------------------------------ dtypes --------------------------------- *)

UIntDtypes == {"uint8"}
SIntDtypes == {"int8", "int16", "int32", "int64"}
IntDtypes == UIntDtypes \cup SIntDtypes
\* the dtypes line 76 of gray.ipynb accepts as floating point
StdFloatDtypes == {"float16", "float32", "float64"}
FloatDtypes == StdFloatDtypes \cup {"bfloat16"}
Dtypes == IntDtypes \cup FloatDtypes \cup {"bool"}

\* (faulty variant: the arithmetic done in a wider type, nothing wraps)
WrapNoOverflow(dtype, x) == x
\* An integer brought into the range of its dtype (two's complement wrap).
\* Elements of the 32- and 64-bit kinds stay far inside their range here.
Wrap(dtype, x) ==
    CASE dtype = "uint8" -> x % 256
      [] dtype = "int8"  -> ((x + 128) % 256) - 128
      [] dtype = "int16" -> ((x + 32768) % 65536) - 32768
      [] dtype = "bool"  -> IF x = 0 THEN 0 ELSE 1
      [] OTHER -> x

Abs(x) == IF x < 0 THEN -x ELSE x
Sgn(x) == IF x < 0 THEN -1 ELSE 1
\* quotient rounded to the nearest integer (d > 0)
RDiv(n, d) == Sgn(n) * ((Abs(n) + (d \div 2)) \div d)
\* quotient truncated toward zero (d > 0)
TDiv(n, d) == Sgn(n) * (Abs(n) \div d)

\* elementwise product and sum in the arithmetic of dtype
Mul(dtype, a, b) ==
    IF dtype \in FloatDtypes THEN RDiv(a * b, Scale) ELSE Wrap(dtype, a * b)
Add(dtype, a, b) ==
    IF dtype \in FloatDtypes THEN a + b ELSE Wrap(dtype, a + b)

\* one element converted from dtype `from` to dtype `to` (Tensor.to)
ToElem(from, to, v) ==
    IF from \in FloatDtypes
    THEN IF to \in FloatDtypes THEN v
         ELSE IF to = "bool" THEN (IF v = 0 THEN 0 ELSE 1)
         ELSE Wrap(to, TDiv(v, Scale))
    ELSE IF to \in FloatDtypes THEN v * Scale
         ELSE Wrap(to, v)

(* ------------------------------ tensors -------------------------------- *)

RECURSIVE Indices(_)
Indices(shape) ==
    IF shape = <<>> THEN {<<>>}
    ELSE {Append(p, i) : p \in Indices(SubSeq(shape, 1, Len(shape) - 1)),
                         i \in 1..shape[Len(shape)]}

Tensor(dtype, shape, f(_)) ==
    [kind |-> "tensor", dtype |-> dtype, shape |-> shape,
     data |-> [idx \in Indices(shape) |-> f(idx)]]

\* a value that is not a tensor (a list, an array of another library)
NotATensor == [kind |-> "object", dtype |-> "none", shape |-> <<>>, data |-> <<>>]
\* the absence of a value: no argument given, or nothing returned
None == [kind |-> "None", dtype |-> "none", shape |-> <<>>, data |-> <<>>]

IsTensor(x) == x.kind = "tensor"

\* position of the channel axis, third from last (dim -3)
ChAxis(shape) == Len(shape) - 2

\* what every converter tests first: a tensor of shape (*, n, H, W)
\* (faulty variant: more than n channels are let through)
BadShapeAtLeast(image, n) ==
    Len(image.shape) < 3 \/ image.shape[ChAxis(image.shape)] < n
BadShape(image, n) ==
    Len(image.shape) < 3 \/ image.shape[ChAxis(image.shape)] # n

RemoveAt(s, k) == [i \in 1..(Len(s) - 1) |-> IF i < k THEN s[i] ELSE s[i + 1]]
InsertAt(s, k, v) ==
    [i \in 1..(Len(s) + 1) |-> IF i < k THEN s[i] ELSE IF i = k THEN v ELSE s[i - 1]]

\* concatenate(tensors, -3) of equally shaped tensors
\* (faulty variant: the last tensor of the list is left out)
ConcatenateTwice(ts) ==
    LET t == ts[1]
        ax == ChAxis(t.shape)
        c == t.shape[ax]
        F(idx) == ts[((idx[ax] - 1) \div c) + 1].data[[idx EXCEPT ![ax] = ((idx[ax] - 1) % c) + 1]]
    IN Tensor(t.dtype, [t.shape EXCEPT ![ax] = c * (Len(ts) - 1)], F)
Concatenate(ts) ==
    LET t == ts[1]
        ax == ChAxis(t.shape)
        c == t.shape[ax]
        F(idx) == ts[((idx[ax] - 1) \div c) + 1].data[[idx EXCEPT ![ax] = ((idx[ax] - 1) % c) + 1]]
    IN Tensor(t.dtype, [t.shape EXCEPT ![ax] = c * Len(ts)], F)

\* t[..., k, :, :]: the channel axis is dropped
Select(t, k) ==
    LET ax == ChAxis(t.shape)
        F(idx) == t.data[InsertAt(idx, ax, k)]
    IN Tensor(t.dtype, RemoveAt(t.shape, ax), F)

\* t[..., lo:hi, :, :] (lo inclusive, hi exclusive, counted from 0): the axis is kept
\* (faulty variant: indexing with lo instead of lo:hi drops the axis)
SliceDropAxis(t, lo, hi) == Select(t, lo + 1)
Slice(t, lo, hi) ==
    LET ax == ChAxis(t.shape)
        F(idx) == t.data[[idx EXCEPT ![ax] = idx[ax] + lo]]
    IN Tensor(t.dtype, [t.shape EXCEPT ![ax] = hi - lo], F)

\* torch.stack(ts, dim=-3) of equally shaped tensors of at least two axes
Stack(ts) ==
    LET t == ts[1]
        ax == Len(t.shape) - 1
        F(idx) == ts[idx[ax]].data[RemoveAt(idx, ax)]
    IN Tensor(t.dtype, InsertAt(t.shape, ax, Len(ts)), F)

\* image.flip(-3)
Flip(t) ==
    LET ax == ChAxis(t.shape)
        F(idx) == t.data[[idx EXCEPT ![ax] = t.shape[ax] + 1 - idx[ax]]]
    IN Tensor(t.dtype, t.shape, F)

\* elementwise map and elementwise combination of equally shaped tensors
Map1(t, f(_)) ==
    LET F(idx) == f(t.data[idx]) IN Tensor(t.dtype, t.shape, F)
Map2(s, t, f(_, _)) ==
    LET F(idx) == f(s.data[idx], t.data[idx]) IN Tensor(s.dtype, s.shape, F)

\* a 1-D tensor of the given elements
Vector(dtype, elems) ==
    [kind |-> "tensor", dtype |-> dtype, shape |-> <<Len(elems)>>,
     data |-> [idx \in Indices(<<Len(elems)>>) |-> elems[idx[1]]]]

\* w.to(image): the elements of w in the dtype of image, as a new value
To(w, image) ==
    LET F(idx) == ToElem(w.dtype, image.dtype, w.data[idx])
    IN Tensor(image.dtype, w.shape, F)

\* w.unbind(): the elements of a 1-D tensor as scalars
Unbind(w) == [i \in 1..w.shape[1] |-> w.data[<<i>>]]

(* ------------------- src/Colors/gray.ipynb ----------------------------- *)

\* what a call gives back: the exception raised or the value returned, and
\* the locals of the call that the properties below look at
Raise(err) == [kind |-> err, value |-> None, locals |-> <<>>]
Return(value, locals) == [kind |-> "ok", value |-> value, locals |-> locals]

grayscale_to_rgb(image) ==
    IF ~IsTensor(image) THEN Raise("TypeError")
    ELSE IF BadShape(image, 1) THEN Raise("ValueError")
    ELSE Return(Concatenate(<<image, image, image>>), <<>>)

\* the weights chosen when the caller gives none; None where the code raises
\* (faulty variant: every integer dtype is given the 8-bit weights)
DefaultWeightsAnyInt(dtype) ==
    IF dtype \in IntDtypes THEN Vector(dtype, <<76, 150, 29>>)
    ELSE IF dtype \in StdFloatDtypes THEN Vector(dtype, <<2990, 5870, 1140>>)
    ELSE None
DefaultWeights(dtype) ==
    IF dtype = "uint8" THEN Vector("uint8", <<76, 150, 29>>)
    ELSE IF dtype \in StdFloatDtypes THEN Vector(dtype, <<2990, 5870, 1140>>)
    ELSE None

\* w_r * r + w_g * g + w_b * b, every product and sum in the image's dtype
WeightedSum(image, w) ==
    LET d == image.dtype
        r == Slice(image, 0, 1)
        g == Slice(image, 1, 2)
        b == Slice(image, 2, 3)
        Wr(x) == Mul(d, w[1], x)
        Wg(x) == Mul(d, w[2], x)
        Wb(x) == Mul(d, w[3], x)
        Plus(x, y) == Add(d, x, y)
    IN Map2(Map2(Map1(r, Wr), Map1(g, Wg), Plus), Map1(b, Wb), Plus)

rgb_to_grayscale(image, rgb_weights) ==
    IF ~IsTensor(image) THEN Raise("TypeError")
    ELSE IF BadShape(image, 3) THEN Raise("ValueError")
    ELSE LET weights == IF rgb_weights = None
                        THEN DefaultWeights(image.dtype)
                        ELSE To(rgb_weights, image)
         IN IF weights = None THEN Raise("TypeError")
            ELSE Return(WeightedSum(image, Unbind(weights)),
                        [rgb_weights |-> weights])

\* kornia.color.rgb.bgr_to_rgb: the channel axis reversed
bgr_to_rgb(image) == Flip(image)

\* (faulty variant: the channels are not reordered)
bgr_to_grayscaleNoFlip(image) ==
    IF ~IsTensor(image) THEN Raise("TypeError")
    ELSE IF BadShape(image, 3) THEN Raise("ValueError")
    ELSE rgb_to_grayscale(image, None)
bgr_to_grayscale(image) ==
    IF ~IsTensor(image) THEN Raise("TypeError")
    ELSE IF BadShape(image, 3) THEN Raise("ValueError")
    ELSE rgb_to_grayscale(bgr_to_rgb(image), None)

(* ------------------- fixed-point real arithmetic ----------------------- *)

Max(a, b) == IF a > b THEN a ELSE b
Min(a, b) == IF a < b THEN a ELSE b

\* product of two fixed-point numbers
FMul(a, b) == RDiv(a * b, Scale)

\* r to the power n, for the n the pipelines need
PowN(n, r) ==
    LET r2 == FMul(r, r)
        r4 == FMul(r2, r2)
    IN CASE n = 2 -> r2
         [] n = 3 -> FMul(r2, r)
         [] n = 5 -> FMul(r4, r)
         [] n = 12 -> FMul(FMul(r4, r4), r4)

\* the largest r in lo..hi with r^n <= x
RECURSIVE Root(_, _, _, _)
Root(n, x, lo, hi) ==
    IF lo >= hi THEN lo
    ELSE LET mid == (lo + hi + 1) \div 2
         IN IF PowN(n, mid) <= x THEN Root(n, x, mid, hi)
            ELSE Root(n, x, lo, mid - 1)

\* torch.pow(x, 3.0)
Cube(x) == PowN(3, x)
\* torch.pow(x, 1 / 3.0), 0 <= x < 3.3
Cbrt(x) == Root(3, x, 0, 15000)
\* torch.pow(x, 2.4) = x^2 * (x^(1/5))^2, 0 <= x < 7.5
Pow2_4(x) == FMul(PowN(2, x), PowN(2, Root(5, x, 0, 15000)))
\* torch.pow(x, 1 / 2.4) = (x^(1/12))^5, 0 <= x < 14
PowInv2_4(x) == PowN(5, Root(12, x, 0, 12500))

\* elementwise combination of three equally shaped tensors
Map3(r, g, b, f(_, _, _)) ==
    LET F(idx) == f(r.data[idx], g.data[idx], b.data[idx])
    IN Tensor(r.dtype, r.shape, F)

\* elementwise map that also sees the element's channel (a (3,1,1) operand)
MapCh(t, f(_, _)) ==
    LET F(idx) == f(idx[ChAxis(t.shape)], t.data[idx])
    IN Tensor(t.dtype, t.shape, F)

(* ---------- kornia.color.rgb and kornia.color.xyz (imported) ----------- *)

\* sRGB to linear RGB: v / 12.92 up to 0.04045, ((v + 0.055) / 1.055)^2.4 above
rgb_to_linear_rgb(image) ==
    LET F(v) == IF v * 10 > 4045
                THEN Pow2_4(RDiv((v + 550) * 1000, 1055))
                ELSE RDiv(v * 100, 1292)
    IN Map1(image, F)

\* linear RGB to sRGB: 12.92 v up to 0.0031308, 1.055 v^(1/2.4) - 0.055 above
linear_rgb_to_rgb(image) ==
    LET F(v) == IF v * 1000 > 31308
                THEN RDiv(1055 * PowInv2_4(v), 1000) - 550
                ELSE RDiv(1292 * v, 100)
    IN Map1(image, F)

\* linear RGB to XYZ: the forward sRGB / D65 matrix applied to every pixel
rgb_to_xyz(image) ==
    LET r == Select(image, 1)
        g == Select(image, 2)
        b == Select(image, 3)
        X(rr, gg, bb) == RDiv(41245 * rr + 35758 * gg + 18042 * bb, 100000)
        Y(rr, gg, bb) == RDiv(21267 * rr + 71516 * gg + 7217 * bb, 100000)
        Z(rr, gg, bb) == RDiv(1933 * rr + 11919 * gg + 95023 * bb, 100000)
    IN Stack(<<Map3(r, g, b, X), Map3(r, g, b, Y), Map3(r, g, b, Z)>>)

\* XYZ to linear RGB: the inverse matrix applied to every pixel
xyz_to_rgb(image) ==
    LET x == Select(image, 1)
        y == Select(image, 2)
        z == Select(image, 3)
        R(xx, yy, zz) == RDiv(32405 * xx - 15372 * yy - 4985 * zz, 10000)
        G(xx, yy, zz) == RDiv(-9693 * xx + 18760 * yy + 416 * zz, 10000)
        B(xx, yy, zz) == RDiv(556 * xx - 2040 * yy + 10573 * zz, 10000)
    IN Stack(<<Map3(x, y, z, R), Map3(x, y, z, G), Map3(x, y, z, B)>>)

(* ------------------- src/Colors/lab.ipynb ------------------------------ *)

\* the D65 white point [0.95047, 1.0, 1.08883]
xyz_ref_white == <<9505, 10000, 10888>>

rgb_to_lab(image) ==
    IF ~IsTensor(image) THEN Raise("TypeError")
    ELSE IF BadShape(image, 3) THEN Raise("ValueError")
    ELSE LET lin_rgb == rgb_to_linear_rgb(image)
             xyz_im == rgb_to_xyz(lin_rgb)
             Normalize(c, v) == RDiv(v * Scale, xyz_ref_white[c])
             xyz_normalized == MapCh(xyz_im, Normalize)
             \* where(t > 0.008856, pow(clamp(t, min=0.008856), 1/3), 7.787 t + 4/29)
             Nonlinear(t) == IF t * 100 > 8856
                             THEN Cbrt(Max(t, 89))
                             ELSE RDiv(7787 * t, 1000) + RDiv(4 * Scale, 29)
             xyz_int == Map1(xyz_normalized, Nonlinear)
             x == Select(xyz_int, 1)
             y == Select(xyz_int, 2)
             z == Select(xyz_int, 3)
             LOf(yy) == 116 * yy - 16 * Scale
             AOf(xx, yy) == 500 * (xx - yy)
             BOf(yy, zz) == 200 * (yy - zz)
             L == Map1(y, LOf)
             a == Map2(x, y, AOf)
             b == Map2(y, z, BOf)
         IN Return(Stack(<<L, a, b>>), <<>>)

\* fz.clamp(min=0.0)
ClampMin0(v) == Max(v, 0)

\* torch.clamp(rgb_im, min=0.0, max=1.0)
Clamp01(v) == Min(Max(v, 0), Scale)

\* where(f > 0.2068966, f^3, (f - 4/29) / 7.787)
InverseNonlinear(f) ==
    IF f * 1000 > 2068966 THEN Cube(f)
    ELSE RDiv((f - RDiv(4 * Scale, 29)) * 1000, 7787)

\* if clip: rgb_im = torch.clamp(rgb_im, min=0.0, max=1.0)
\* (faulty variant: the result is clamped whatever clip says)
ClipAlways(clip, rgb_im) == Map1(rgb_im, Clamp01)
Clip(clip, rgb_im) == IF clip THEN Map1(rgb_im, Clamp01) ELSE rgb_im

lab_to_rgb(image, clip) ==
    IF ~IsTensor(image) THEN Raise("TypeError")
    ELSE IF BadShape(image, 3) THEN Raise("ValueError")
    ELSE LET L == Select(image, 1)
             a == Select(image, 2)
             b == Select(image, 3)
             FyOf(l) == RDiv(l + 16 * Scale, 116)
             FxOf(aa, f) == RDiv(aa, 500) + f
             FzOf(f, bb) == f - RDiv(bb, 200)
             fy == Map1(L, FyOf)
             fx == Map2(a, fy, FxOf)
             fz == Map1(Map2(fy, b, FzOf), ClampMin0)
             fxyz == Stack(<<fx, fy, fz>>)
             xyz == Map1(fxyz, InverseNonlinear)
             White(c, v) == RDiv(v * xyz_ref_white[c], Scale)
             xyz_im == MapCh(xyz, White)
             rgbs_im == xyz_to_rgb(xyz_im)
             rgb_im == linear_rgb_to_rgb(rgbs_im)
         IN Return(Clip(clip, rgb_im),
                   [fz |-> fz, xyz_im |-> xyz_im, rgb_im |-> rgb_im])

\* LabToRgb.forward
LabToRgb_forward(image, clip) == lab_to_rgb(image, clip)

(* ------------------------------ inputs --------------------------------- *)

SeqsUpTo(n, S) == UNION {[1..k -> S] : k \in 0..n}

Leads == SeqsUpTo(MaxLead, 1..MaxBatch)
\* shapes with a channel axis, of 1 to 4 channels
Shapes3 == {lead \o <<c, h, w>> : lead \in Leads, c \in 1..4,
                                   h \in 1..MaxSide, w \in 1..MaxSide}
\* shapes of fewer than three axes
LowShapes == SeqsUpTo(2, {1, 3})
Shapes == Shapes3 \cup LowShapes
\* the shapes on which every combination of channel values is tried
PixelShapes == {<<3, 1, 1>>, <<1, 3, 1, 2>>}

Samples(dtype) ==
    CASE dtype = "uint8" -> <<0, 2, 128, 255>>
      [] dtype = "int8" -> <<0, 2, -128, 127>>
      [] dtype \in {"int16", "int32", "int64"} -> <<0, 2, -3, 100>>
      [] dtype = "bool" -> <<0, 1, 0, 1>>
      [] OTHER -> <<0, 5000, 10000, 2000>>

RECURSIVE SumOffsets(_, _, _)
SumOffsets(idx, skip, i) ==
    IF i > Len(idx) THEN 0
    ELSE (IF i = skip THEN 0 ELSE idx[i] - 1) + SumOffsets(idx, skip, i + 1)

\* the tensor whose first pixel has the sample values numbered px[1..3] in
\* its channels, the other pixels the samples that follow them in turn
MkImage(dtype, shape, px) ==
    LET ax == IF Len(shape) < 3 THEN 0 ELSE ChAxis(shape)
        ch(idx) == IF ax = 0 THEN 1 ELSE ((idx[ax] - 1) % 3) + 1
        F(idx) == Samples(dtype)[((px[ch(idx)] + SumOffsets(idx, ax, 1)) % 4) + 1]
    IN Tensor(dtype, shape, F)

AllPx == [1..3 -> 0..3]
BasePx == <<1, 2, 3>>

\* An input is described by <<kind, dtype, shape, px>> and built by ImageOf:
\* a tensor of sample values, a one-pixel tensor of given values, or an
\* object that is not a tensor.
ImageDescs ==
    {<<"samples", d, s, BasePx>> : d \in Dtypes, s \in Shapes}
    \cup {<<"samples", d, s, p>> : d \in Dtypes, s \in PixelShapes, p \in AllPx}
    \cup {<<"object", "none", <<>>, <<>> >>}

\* the inputs the Lab converters are called on: floating-point tensors, and
\* everything they reject before computing anything
LabImageDescs ==
    {i \in ImageDescs :
        \/ i[1] = "object"
        \/ i[2] \in FloatDtypes
        \/ Len(i[3]) < 3
        \/ i[3][ChAxis(i[3])] # 3}

\* a one-pixel floating-point image (3, 1, 1) of the given channel values
Pixel(c1, c2, c3) ==
    LET F(idx) == <<c1, c2, c3>>[idx[1]] IN Tensor("float32", <<3, 1, 1>>, F)

\* Lab colours, in and out of the sRGB gamut
LSamples == {0, 25, 50, 75, 100}
ABSamples == {-128, -64, 0, 64, 127}
LabColors ==
    {<<"pixel", "float32", <<3, 1, 1>>, <<l * Scale, a * Scale, b * Scale>> >> :
        l \in LSamples, a \in ABSamples, b \in ABSamples}
\* sRGB colours in [0, 1]
RgbSamples == {0, 300, 2000, 5000, 10000}
RgbColors ==
    {<<"pixel", "float32", <<3, 1, 1>>, <<r, g, b>> >> :
        r \in RgbSamples, g \in RgbSamples, b \in RgbSamples}

ImageOf(i) ==
    CASE i[1] = "samples" -> MkImage(i[2], i[3], i[4])
      [] i[1] = "pixel" -> Pixel(i[4][1], i[4][2], i[4][3])
      [] OTHER -> NotATensor

\* weights a caller may pass: none, a floating-point vector, an integer vector
WeightArgs == {None, Vector("float32", <<5000, 3000, 2000>>),
               Vector("int64", <<1, 2, 3>>)}

(* ------------------------------ actions -------------------------------- *)

\* A behaviour of Spec is one call: Init draws the function and its
\* arguments, the action of that function runs it and stores what it gives back.
Request(op, image, rgb_weights, clip) ==
    [op |-> op, image |-> image, rgb_weights |-> rgb_weights, clip |-> clip]

NoCall == Request("none", None, None, FALSE)
Pending == Raise("pending")

\* the calls tried: <<function, input, rgb_weights, clip>>
Requests ==
    {<<"grayscale_to_rgb", i, None, FALSE>> : i \in ImageDescs}
    \cup {<<"rgb_to_grayscale", i, w, FALSE>> : i \in ImageDescs, w \in WeightArgs}
    \cup {<<"bgr_to_grayscale", i, None, FALSE>> : i \in ImageDescs}
    \cup {<<"rgb_to_lab", i, None, FALSE>> : i \in LabImageDescs \cup RgbColors}
    \cup {<<"lab_to_rgb", i, None, clip>> :
              i \in LabImageDescs \cup LabColors, clip \in BOOLEAN}
    \cup {<<"LabToRgb.forward", i, None, clip>> : i \in LabColors, clip \in BOOLEAN}

Call_grayscale_to_rgb ==
    /\ call.op = "grayscale_to_rgb" /\ ret = Pending
    /\ ret' = grayscale_to_rgb(call.image)
    /\ UNCHANGED <<call, modVars>>

Call_rgb_to_grayscale ==
    /\ call.op = "rgb_to_grayscale" /\ ret = Pending
    /\ ret' = rgb_to_grayscale(call.image, call.rgb_weights)
    /\ UNCHANGED <<call, modVars>>

Call_bgr_to_grayscale ==
    /\ call.op = "bgr_to_grayscale" /\ ret = Pending
    /\ ret' = bgr_to_grayscale(call.image)
    /\ UNCHANGED <<call, modVars>>

Call_rgb_to_lab ==
    /\ call.op = "rgb_to_lab" /\ ret = Pending
    /\ ret' = rgb_to_lab(call.image)
    /\ UNCHANGED <<call, modVars>>

Call_lab_to_rgb ==
    /\ call.op = "lab_to_rgb" /\ ret = Pending
    /\ ret' = lab_to_rgb(call.image, call.clip)
    /\ UNCHANGED <<call, modVars>>

Call_LabToRgb_forward ==
    /\ call.op = "LabToRgb.forward" /\ ret = Pending
    /\ ret' = LabToRgb_forward(call.image, call.clip)
    /\ UNCHANGED <<call, modVars>>

ModInit ==
    /\ self_rgb_weights = None
    /\ ctor_arg = None
    /\ constructed = FALSE
    /\ frame = <<>>
    /\ done = <<>>

Init ==
    /\ \E r \in Requests : call = Request(r[1], ImageOf(r[2]), r[3], r[4])
    /\ ret = Pending
    /\ ModInit

Next ==
    \/ Call_grayscale_to_rgb
    \/ Call_rgb_to_grayscale
    \/ Call_bgr_to_grayscale
    \/ Call_rgb_to_lab
    \/ Call_lab_to_rgb
    \/ Call_LabToRgb_forward

Spec == Init /\ [][Next]_vars

(* ------------------- RgbToGrayscale, shared instance ------------------- *)

\* Callers of one RgbToGrayscale instance; each runs forward step by step:
\* the argument self.rgb_weights is read when rgb_to_grayscale is entered,
\* then the checks and the choice of the weights, then the weighted sum.
Callers == {"t1", "t2"}

ModuleImages ==
    {<<"samples", "uint8", <<3, 1, 1>>, BasePx>>,
     <<"samples", "float32", <<3, 1, 2>>, BasePx>>,
     <<"samples", "float64", <<1, 3, 1, 1>>, <<2, 1, 0>> >>,
     <<"samples", "int32", <<3, 1, 1>>, BasePx>>,
     <<"samples", "float32", <<2, 1, 1>>, BasePx>>}

Idle == [pc |-> "idle", image |-> None, rgb_weights |-> None, ret |-> Pending]

\* RgbToGrayscale.__init__
Construct(rgb_weights) ==
    /\ ~constructed
    /\ constructed' = TRUE
    /\ self_rgb_weights' = rgb_weights
    /\ ctor_arg' = rgb_weights
    /\ UNCHANGED <<fnVars, frame, done>>

\* forward: rgb_to_grayscale(image, rgb_weights=self.rgb_weights) is entered
Forward_enter(c, image) ==
    /\ constructed
    /\ frame[c].pc = "idle"
    /\ done[c] < MaxCalls
    /\ frame' = [frame EXCEPT ![c] =
                    [pc |-> "entered", image |-> ImageOf(image),
                     rgb_weights |-> self_rgb_weights, ret |-> Pending]]
    /\ UNCHANGED <<fnVars, self_rgb_weights, ctor_arg, constructed, done>>

\* what the instance holds after `rgb_weights = rgb_weights.to(image)`: the
\* assignment binds the local name, the instance's tensor is not written
\* (faulty variant: the conversion written into the instance's tensor)
StoredAfterToInPlace(stored, converted) == converted
StoredAfterTo(stored, converted) == stored

\* the checks, then the weights: the defaults, or the argument converted
Forward_weights(c) ==
    LET f == frame[c]
        weights == IF f.rgb_weights = None
                   THEN DefaultWeights(f.image.dtype)
                   ELSE To(f.rgb_weights, f.image)
    IN /\ f.pc = "entered"
       /\ IF ~IsTensor(f.image)
          THEN /\ frame' = [frame EXCEPT ![c].pc = "returned",
                                         ![c].ret = Raise("TypeError")]
               /\ UNCHANGED self_rgb_weights
          ELSE IF BadShape(f.image, 3)
          THEN /\ frame' = [frame EXCEPT ![c].pc = "returned",
                                         ![c].ret = Raise("ValueError")]
               /\ UNCHANGED self_rgb_weights
          ELSE IF weights = None
          THEN /\ frame' = [frame EXCEPT ![c].pc = "returned",
                                         ![c].ret = Raise("TypeError")]
               /\ UNCHANGED self_rgb_weights
          ELSE /\ frame' = [frame EXCEPT ![c].pc = "weights",
                                         ![c].rgb_weights = weights]
               /\ self_rgb_weights' =
                    IF f.rgb_weights = None THEN self_rgb_weights
                    ELSE StoredAfterTo(self_rgb_weights, weights)
       /\ UNCHANGED <<fnVars, ctor_arg, constructed, done>>

\* the channels unpacked and the weighted sum returned
Forward_compute(c) ==
    LET f == frame[c]
    IN /\ f.pc = "weights"
       /\ frame' = [frame EXCEPT
                       ![c].pc = "returned",
                       ![c].ret = Return(WeightedSum(f.image, Unbind(f.rgb_weights)),
                                         [rgb_weights |-> f.rgb_weights])]
       /\ UNCHANGED <<fnVars, self_rgb_weights, ctor_arg, constructed, done>>

\* the caller takes the result
Forward_return(c) ==
    /\ frame[c].pc = "returned"
    /\ frame' = [frame EXCEPT ![c] = Idle]
    /\ done' = [done EXCEPT ![c] = done[c] + 1]
    /\ UNCHANGED <<fnVars, self_rgb_weights, ctor_arg, constructed>>

InitModule ==
    /\ call = NoCall
    /\ ret = Pending
    /\ self_rgb_weights = None
    /\ ctor_arg = None
    /\ constructed = FALSE
    /\ frame = [c \in Callers |-> Idle]
    /\ done = [c \in Callers |-> 0]

NextModule ==
    \/ \E w \in WeightArgs : Construct(w)
    \/ \E c \in Callers, image \in ModuleImages : Forward_enter(c, image)
    \/ \E c \in Callers : Forward_weights(c)
    \/ \E c \in Callers : Forward_compute(c)
    \/ \E c \in Callers : Forward_return(c)

SpecModule == InitModule /\ [][NextModule]_vars

(* ------------------------------ properties ----------------------------- *)

Called(op) == call.op = op /\ ret # Pending
Rank(image) == Len(image.shape)
\* the size of the third-from-last axis of a tensor of at least three axes
Channels(image) == image.shape[Rank(image) - 2]
\* a tensor of shape (*, n, H, W)
HasShape(image, n) ==
    IsTensor(image) /\ Rank(image) >= 3 /\ Channels(image) = n
\* the element of the pixel of idx in channel c
AtChannel(image, idx, c) == image.data[[idx EXCEPT ![Rank(image) - 2] = c]]

InputChannels(op) == IF op = "grayscale_to_rgb" THEN 1 ELSE 3
OutputChannels(op) ==
    IF op \in {"rgb_to_grayscale", "bgr_to_grayscale"} THEN 1 ELSE 3

\* C1: a converter called on a tensor of fewer than three axes, or whose
\* third-from-last axis has not the size the converter requires (1 for
\* grayscale_to_rgb, 3 for the others), raises ValueError and returns nothing.
C1_ShapeRejected ==
    (ret # Pending /\ IsTensor(call.image)
        /\ ~HasShape(call.image, InputChannels(call.op)))
    => (ret.kind = "ValueError" /\ ret.value = None)

\* C1 happens: grayscale_to_rgb was given 3 channels and raised ValueError.
C1_Witness ==
    /\ Called("grayscale_to_rgb")
    /\ HasShape(call.image, 3)
    /\ ret.kind = "ValueError"

\* C2 (as amended): without weights, rgb_to_grayscale on a 3-channel image uses
\* [76,150,29] exactly when the image is uint8, [0.299,0.587,0.114] exactly
\* when it is float16, float32 or float64, and raises TypeError for every
\* other dtype (int8..int64, bool, bfloat16).
C2_DefaultWeightsByDtype ==
    (Called("rgb_to_grayscale") /\ call.rgb_weights = None
        /\ HasShape(call.image, 3))
    => IF call.image.dtype = "uint8"
       THEN ret.kind = "ok"
            /\ ret.locals.rgb_weights.dtype = "uint8"
            /\ Unbind(ret.locals.rgb_weights) = <<76, 150, 29>>
       ELSE IF call.image.dtype \in {"float16", "float32", "float64"}
       THEN ret.kind = "ok"
            /\ ret.locals.rgb_weights.dtype = call.image.dtype
            /\ Unbind(ret.locals.rgb_weights) = <<2990, 5870, 1140>>
       ELSE ret.kind = "TypeError" /\ ret.value = None

\* C2 happens: an int32 image without weights raised TypeError.
C2_Witness ==
    /\ Called("rgb_to_grayscale") /\ call.rgb_weights = None
    /\ HasShape(call.image, 3)
    /\ call.image.dtype = "int32"
    /\ ret.kind = "TypeError"

\* C2 as stated: every integer-valued image uses [76,150,29], every
\* floating-point image [0.299,0.587,0.114], any other kind raises TypeError.
C2_Original ==
    (Called("rgb_to_grayscale") /\ call.rgb_weights = None
        /\ HasShape(call.image, 3))
    => IF call.image.dtype \in IntDtypes
       THEN ret.kind = "ok" /\ Unbind(ret.locals.rgb_weights) = <<76, 150, 29>>
       ELSE IF call.image.dtype \in FloatDtypes
       THEN ret.kind = "ok"
            /\ Unbind(ret.locals.rgb_weights) = <<2990, 5870, 1140>>
       ELSE ret.kind = "TypeError"

\* C3: on a 3-channel uint8 image without weights, every output element is
\* 76 R + 150 G + 29 B of its pixel reduced modulo 256, an 8-bit value, and
\* the output is uint8.
C3_Uint8WeightedSum ==
    (Called("rgb_to_grayscale") /\ call.rgb_weights = None
        /\ HasShape(call.image, 3) /\ call.image.dtype = "uint8")
    => /\ ret.kind = "ok"
       /\ ret.value.dtype = "uint8"
       /\ \A idx \in DOMAIN ret.value.data :
            /\ ret.value.data[idx] \in 0..255
            /\ ret.value.data[idx] =
                 (76 * AtChannel(call.image, idx, 1)
                  + 150 * AtChannel(call.image, idx, 2)
                  + 29 * AtChannel(call.image, idx, 3)) % 256

\* C3 happens: a uint8 image was converted and the sum of a pixel exceeded 255.
C3_Witness ==
    /\ Called("rgb_to_grayscale") /\ call.rgb_weights = None
    /\ HasShape(call.image, 3) /\ call.image.dtype = "uint8"
    /\ ret.kind = "ok"
    /\ \E idx \in DOMAIN ret.value.data :
          76 * AtChannel(call.image, idx, 1)
          + 150 * AtChannel(call.image, idx, 2)
          + 29 * AtChannel(call.image, idx, 3) > 255

\* C4: grayscale_to_rgb on a 1-channel tensor returns a 3-channel tensor of
\* the same dtype, each channel slice of which is the input, element for element.
C4_ChannelsReplicate ==
    (Called("grayscale_to_rgb") /\ HasShape(call.image, 1))
    => /\ ret.kind = "ok"
       /\ HasShape(ret.value, 3)
       /\ \A c \in 0..2 : Slice(ret.value, c, c + 1) = call.image

\* C4 happens: a batched 1-channel image of differing elements was replicated.
C4_Witness ==
    /\ Called("grayscale_to_rgb") /\ HasShape(call.image, 1)
    /\ Rank(call.image) = 4
    /\ \E i, j \in DOMAIN call.image.data : call.image.data[i] # call.image.data[j]
    /\ ret.kind = "ok"

\* the image with channel c holding what channel 4 - c held
ChannelReversed(image) ==
    [image EXCEPT !.data =
        [idx \in DOMAIN image.data |-> AtChannel(image, idx, 4 - idx[Rank(image) - 2])]]

\* C5: on a 3-channel tensor, bgr_to_grayscale gives exactly what
\* rgb_to_grayscale without weights gives on the image with its channels
\* reversed: the same value, or the same error.
C5_BgrIsRgbOfReversed ==
    (Called("bgr_to_grayscale") /\ HasShape(call.image, 3))
    => /\ ret.kind = rgb_to_grayscale(ChannelReversed(call.image), None).kind
       /\ ret.value = rgb_to_grayscale(ChannelReversed(call.image), None).value

\* C5 happens: a BGR image whose B and R differ was converted.
C5_Witness ==
    /\ Called("bgr_to_grayscale") /\ HasShape(call.image, 3)
    /\ ret.kind = "ok"
    /\ \E idx \in DOMAIN call.image.data :
          AtChannel(call.image, idx, 1) # AtChannel(call.image, idx, 3)

\* C5's error case happens: the default-weight lookup failed for a BGR image.
C5_ErrorReached ==
    Called("bgr_to_grayscale") /\ HasShape(call.image, 3) /\ ret.kind = "TypeError"

\* the rgb_im local of a finished lab_to_rgb call, before the clip
IsLabToRgb == call.op \in {"lab_to_rgb", "LabToRgb.forward"} /\ ret.kind = "ok"

\* C6: lab_to_rgb, called directly or through LabToRgb.forward, clamps
\* exactly when clip is true: then every output element is the pipeline's
\* element clamped into [0,1]; otherwise the output is the pipeline's result.
C6_ClipIffAsked ==
    IsLabToRgb
    => IF call.clip
       THEN \A idx \in DOMAIN ret.value.data :
              /\ ret.value.data[idx] >= 0 /\ ret.value.data[idx] <= Scale
              /\ ret.value.data[idx] = Clamp01(ret.locals.rgb_im.data[idx])
       ELSE ret.value = ret.locals.rgb_im

\* C6 happens: LabToRgb.forward with clip false returned an element below 0
\* and an element above 1.
C6_Witness ==
    /\ call.op = "LabToRgb.forward" /\ ret.kind = "ok" /\ ~call.clip
    /\ \E idx \in DOMAIN ret.value.data : ret.value.data[idx] < 0
    /\ \E idx \in DOMAIN ret.value.data : ret.value.data[idx] > Scale

\* C6 happens with clip true: the pipeline left [0,1] and the output did not.
C6_ClippedReached ==
    /\ IsLabToRgb /\ call.clip
    /\ \E idx \in DOMAIN ret.value.data : ret.locals.rgb_im.data[idx] < 0

\* C8: the output of a converter has the shape of its input with the
\* third-from-last axis set to 3 (grayscale_to_rgb, rgb_to_lab, lab_to_rgb)
\* or to 1 (rgb_to_grayscale, bgr_to_grayscale).
C8_ShapePreserved ==
    (ret # Pending /\ ret.kind = "ok")
    => /\ Rank(call.image) >= 3
       /\ ret.value.shape =
            [call.image.shape EXCEPT ![Rank(call.image) - 2] = OutputChannels(call.op)]

\* C8 happens: rgb_to_grayscale converted an image that has no leading axis.
C8_Witness ==
    /\ Called("rgb_to_grayscale") /\ ret.kind = "ok"
    /\ Rank(call.image) = 3
    /\ call.image.shape[2] > 1

\* C8 happens with a leading axis: rgb_to_lab converted a batch of two.
C8_BatchReached ==
    /\ Called("rgb_to_lab") /\ ret.kind = "ok"
    /\ Rank(call.image) = 4 /\ call.image.shape[1] = 2

\* C10 as stated: the Z component of the XYZ value lab_to_rgb computes (after
\* the inverse nonlinearity and the white point) is never negative.
C10_ZNeverNegative ==
    IsLabToRgb
    => \A idx \in DOMAIN ret.locals.xyz_im.data :
          idx[Rank(ret.locals.xyz_im) - 2] = 3 => ret.locals.xyz_im.data[idx] >= 0

\* what the code does ensure: fz is never negative.
C10_FzClamped ==
    IsLabToRgb => \A idx \in DOMAIN ret.locals.fz.data : ret.locals.fz.data[idx] >= 0

\* C9: the weights an RgbToGrayscale instance holds are those it was
\* constructed with, whatever calls have run or are running, and every call
\* that has finished gave what rgb_to_grayscale gives, called alone with the
\* image and the constructor's weights.
C9_StoredWeightsImmutable ==
    constructed
    => /\ self_rgb_weights = ctor_arg
       /\ \A c \in Callers :
            frame[c].pc = "returned"
            => /\ frame[c].ret.kind = rgb_to_grayscale(frame[c].image, ctor_arg).kind
               /\ frame[c].ret.value = rgb_to_grayscale(frame[c].image, ctor_arg).value

\* C9 happens: with stored floating-point weights, one caller has finished a
\* call on a uint8 image after the other had entered with a float image, and
\* that other caller, having already completed a call, finishes too.
C9_Witness ==
    /\ constructed /\ ctor_arg # None /\ ctor_arg.dtype = "float32"
    /\ \E c, d \in Callers :
          /\ c # d
          /\ frame[c].pc = "returned" /\ frame[c].ret.kind = "ok"
          /\ frame[c].image.dtype = "uint8"
          /\ frame[d].pc = "returned" /\ frame[d].ret.kind = "ok"
          /\ frame[d].image.dtype = "float64"
          /\ done[d] > 0

====
